---- MODULE Spec2Model ----
(***************************************************************************)
(* Trajectory synthesis and replay: the default Bezier movement algorithm, *)
(* the MovementEngine facade and the GhostCursor controller.               *)
(*                                                                         *)
(* Numbers.  Coordinates are whole pixels; a sampled curve point is the    *)
(* exact rational value of the cubic rounded to the nearest pixel.  A      *)
(* pseudo-random draw is k / RandDen.  Math.log2 is carried at a           *)
(* resolution of 1 / LogOne and rounded up, so that it is 0 exactly when   *)
(* its argument is 1.  A timestamp is a JS number: finite, Infinity or NaN.*)
(* An optional value (undefined / null in the source) is a set with at     *)
(* most one element.                                                       *)
(***************************************************************************)
EXTENDS Integers, Sequences, FiniteSets, TLC

VARIABLES
  gpc,        \* generation harness: "call" before generate, "returned" after
  req,        \* the request of the harness: [start, end, options]
  draws,      \* the values Math.random returns during the call, in order
  now,        \* the value Date.now() returns during the call
  via,        \* "algorithm" (direct call) or "engine" (through the facade)
  trace,      \* the returned MovementTrace, {} before the call returned
  defaults,   \* controller: the default moveTo options given at construction
  location,   \* controller: the current position (CursorState)
  cpc,        \* controller: "idle", "send", "await" or "delay" inside moveTo
  lastCtx,    \* controller: the context the algorithm received for this move
  ctrace,     \* controller: the vectors of the trace being dispatched
  idx,        \* controller: index of the vector being dispatched
  sent,       \* transport: the events received during this moveTo, in order
  replies,    \* transport: its answers to these events, "ack" or "rejected"
  connected,  \* transport: the connectivity check
  outcome,    \* controller: how the last moveTo ended: "none", "ok", "failed"
  started,    \* controller: a moveTo was called on this instance
  moves,      \* controller: the number of moveTo calls made so far
  clock,      \* the last value Date.now() returned
  script,     \* plugged-in algorithm: the prepared traces it has yet to return
  contexts,   \* plugged-in algorithm: the contexts it recorded, in order
  invocations,\* the number of times the plugged-in algorithm's generate ran
  ecalls,     \* the MovementEngine.generate calls made, in order
  returns     \* what each of these calls gave its caller, in order

gvars == <<gpc, req, draws, now, via, trace>>
cvars == <<defaults, location, cpc, lastCtx, ctrace, idx, sent, replies,
           connected, outcome, started, moves, clock>>
evars == <<script, contexts, invocations, ecalls, returns>>
vars == <<gvars, cvars, evars>>

----------------------------------------------------------------------------
(* Bounds and resolutions                                                  *)

RandDen == 8          \* a draw of Math.random is k / RandDen, k in 0..RandDen-1
LogBits == 4          \* fractional bits kept of Math.log2
FxOne == 4096         \* fixed-point one of the log2 mantissa
SpeedScale == 16      \* curve speed is carried in 1 / SpeedScale pixels
ArcSegments == 4      \* chords summed by the arc-length approximation
MaxClock == 1         \* milliseconds that may pass before a moveTo call is made
MaxMoves == 2         \* moveTo calls made on one controller
MaxCalls == 3         \* generate calls made on one engine with a plugged-in algorithm

(* Program constants                                                       *)
DEFAULT_WIDTH == 100
MIN_STEPS == 25

----------------------------------------------------------------------------
(* Optional values and JS numbers                                          *)

Unset == {}
Some(v) == {v}
IsSet(o) == o # {}
Val(o) == CHOOSE v \in o : TRUE

Fin(n) == [k |-> "fin", v |-> n]
Inf == [k |-> "inf", v |-> 0]
NegInf == [k |-> "ninf", v |-> 0]
NaN == [k |-> "nan", v |-> 0]

NumAdd(a, b) ==
  IF a.k = "nan" \/ b.k = "nan" THEN NaN
  ELSE IF a.k = "fin" /\ b.k = "fin" THEN Fin(a.v + b.v)
  ELSE IF a.k = "fin" THEN b
  ELSE IF b.k = "fin" THEN a
  ELSE IF a.k = b.k THEN a ELSE NaN

NumNeg(a) ==
  IF a.k = "fin" THEN Fin(0 - a.v)
  ELSE IF a.k = "inf" THEN NegInf
  ELSE IF a.k = "ninf" THEN Inf ELSE NaN

NumSub(a, b) == NumAdd(a, NumNeg(b))

\* a >= b as JS evaluates it: false as soon as one side is NaN
NumGeq(a, b) ==
  IF a.k = "nan" \/ b.k = "nan" THEN FALSE
  ELSE IF a.k = "inf" \/ b.k = "ninf" THEN TRUE
  ELSE IF a.k = "ninf" \/ b.k = "inf" THEN FALSE
  ELSE a.v >= b.v

----------------------------------------------------------------------------
(* Integer helpers                                                         *)

Max(a, b) == IF a >= b THEN a ELSE b
Min(a, b) == IF a <= b THEN a ELSE b
Abs(a) == IF a >= 0 THEN a ELSE 0 - a

\* Math.ceil(a / b), b > 0
CeilDiv(a, b) == 0 - ((0 - a) \div b)

\* Math.round(a / b), b > 0: the nearest integer, halves towards +Infinity
RoundDiv(a, b) == (2 * a + b) \div (2 * b)

RECURSIVE SqrtIter(_, _, _)
SqrtIter(n, lo, hi) ==
  IF lo >= hi THEN lo
  ELSE LET mid == (lo + hi + 1) \div 2
       IN IF mid * mid <= n THEN SqrtIter(n, mid, hi) ELSE SqrtIter(n, lo, mid - 1)

\* Math.sqrt, rounded down to a whole unit
ISqrt(n) == SqrtIter(n, 0, Min(n, 46340))

RECURSIVE Pow2(_)
Pow2(e) == IF e = 0 THEN 1 ELSE 2 * Pow2(e - 1)

LogOne == Pow2(LogBits)

RECURSIVE Log2Int(_, _, _)
\* the largest e with den * 2^e <= num
Log2Int(num, den, e) == IF 2 * den > num THEN e ELSE Log2Int(num, 2 * den, e + 1)

RECURSIVE Log2Frac(_, _, _)
\* the fractional bits of log2(y / FxOne), FxOne <= y < 2 * FxOne, by squaring
Log2Frac(y, bits, acc) ==
  IF bits = 0 THEN acc
  ELSE LET sq == (y * y) \div FxOne
       IN IF sq >= 2 * FxOne
          THEN Log2Frac(sq \div 2, bits - 1, 2 * acc + 1)
          ELSE Log2Frac(sq, bits - 1, 2 * acc)

\* Math.log2(num / den) for num >= den > 0, in units of 1 / LogOne, rounded up
Log2Fx(num, den) ==
  LET e == Log2Int(num, den, 0)
      d == den * Pow2(e)
      y == (FxOne * num) \div d
      down == e * LogOne + Log2Frac(y, LogBits, 0)
  IN IF num = d THEN e * LogOne ELSE down + 1

----------------------------------------------------------------------------
(* Geometry primitives                                                     *)

Point(x, y) == [x |-> x, y |-> y]

\* a target region (BoundingBox)
Box(x, y, w, h) == [x |-> x, y |-> y, width |-> w, height |-> h]

direction(a, b) == Point(b.x - a.x, b.y - a.y)

magnitude(v) == ISqrt(v.x * v.x + v.y * v.y)

extrapolate(p0, p1) == Point(p1.x + (p1.x - p0.x), p1.y + (p1.y - p0.y))

\* one interior control point: a draw along the chord, a draw of the spread
\* along the normal of the chord, on the drawn side
Anchor(start, chord, d, spread, side, t, s) ==
  LET ax == RoundDiv(chord.x * t, RandDen)
      ay == RoundDiv(chord.y * t, RandDen)
      ox == IF d = 0 THEN 0 ELSE side * RoundDiv((0 - chord.y) * spread * s, d * RandDen)
      oy == IF d = 0 THEN 0 ELSE side * RoundDiv(chord.x * spread * s, d * RandDen)
  IN Point(start.x + ax + ox, start.y + ay + oy)

\* the four control points of the randomized cubic from start to finish
bezierCurve(start, finish, spreadOverride, rnd) ==
  LET chord == direction(start, finish)
      d == magnitude(chord)
      spread == IF IsSet(spreadOverride) THEN Val(spreadOverride) ELSE d
      side == IF 2 * rnd[1] >= RandDen THEN 1 ELSE -1
  IN << Point(start.x, start.y),
        Anchor(start, chord, d, spread, side, rnd[2], rnd[3]),
        Anchor(start, chord, d, spread, side, rnd[4], rnd[5]),
        finish >>

\* one coordinate of the cubic at t = i / n
BezierCoord(c0, c1, c2, c3, i, n) ==
  LET u == n - i
  IN RoundDiv(u * u * u * c0 + 3 * u * u * i * c1 + 3 * u * i * i * c2 + i * i * i * c3,
              n * n * n)

\* curve.getLUT(steps): steps + 1 evenly parameterized points, both ends included
getLUT(curve, steps) ==
  IF steps = 0 THEN << curve[1] >>
  ELSE [j \in 1..(steps + 1) |->
          IF j = 1 THEN curve[1]
          ELSE IF j = steps + 1 THEN curve[4]
          ELSE Point(BezierCoord(curve[1].x, curve[2].x, curve[3].x, curve[4].x, j - 1, steps),
                     BezierCoord(curve[1].y, curve[2].y, curve[3].y, curve[4].y, j - 1, steps))]

RECURSIVE PolylineLength(_, _)
PolylineLength(pts, j) ==
  IF j >= Len(pts) THEN 0
  ELSE magnitude(direction(pts[j], pts[j + 1])) + PolylineLength(pts, j + 1)

\* curve.length(): a numerical arc-length approximation
curveLength(curve) == PolylineLength(getLUT(curve, ArcSegments), 1)

\* bezierCurveSpeed(a / b, P0, P1, P2, P3): |B'(t)| in 1 / SpeedScale pixels
bezierCurveSpeed(a, b, P0, P1, P2, P3) ==
  LET u == b - a
      B1 == (SpeedScale * (3 * u * u * (P1.x - P0.x) + 6 * u * a * (P2.x - P1.x)
                           + 3 * a * a * (P3.x - P2.x))) \div (b * b)
      B2 == (SpeedScale * (3 * u * u * (P1.y - P0.y) + 6 * u * a * (P2.y - P1.y)
                           + 3 * a * a * (P3.y - P2.y))) \div (b * b)
  IN ISqrt(B1 * B1 + B2 * B2)

----------------------------------------------------------------------------
(* The default algorithm (BezierMovementAlgorithm)                         *)

\* fitts multiplying the distance by the width instead of dividing
fitts_product(distNum, distDen, width) ==
  LET a == 0
      b == 2
      id == Log2Fx(distNum * width + distDen, distDen)
  IN a + b * id

\* fitts(distance, width) with distance = distNum / distDen, in 1 / LogOne
fitts(distNum, distDen, width) ==
  LET a == 0
      b == 2
      id == Log2Fx(distNum + distDen * width, distDen * width)
  IN a + b * id

\* Math.round(total / speed) of timeToMove; sum is the sum of v1 + v2 over the
\* loop, so that total = sum / (2 * samples * SpeedScale)
roundedTime(sum, still, samples, speed) ==
  IF speed.n = 0 THEN (IF still THEN NaN ELSE Inf)
  ELSE IF speed.n > 0
       THEN Fin(RoundDiv(sum * speed.d, 2 * samples * SpeedScale * speed.n))
       ELSE Fin(RoundDiv(0 - sum * speed.d, 2 * samples * SpeedScale * (0 - speed.n)))

RECURSIVE speedSum(_, _, _, _, _, _)
\* the loop of timeToMove: t = j / samples, v1 at t * dt, v2 at t
speedSum(P0, P1, P2, P3, samples, j) ==
  IF j >= samples THEN 0
  ELSE bezierCurveSpeed(j, samples * samples, P0, P1, P2, P3)
       + bezierCurveSpeed(j, samples, P0, P1, P2, P3)
       + speedSum(P0, P1, P2, P3, samples, j + 1)

timeToMove(P0, P1, P2, P3, samples, speed) ==
  roundedTime(speedSum(P0, P1, P2, P3, samples, 0),
              P0 = P1 /\ P1 = P2 /\ P2 = P3, samples, speed)

RECURSIVE timedFrom(_, _, _)
\* the loop of generateTimestamps from index Len(acc) + 1 on
timedFrom(vectors, speed, acc) ==
  LET i == Len(acc) + 1
      n == Len(vectors)
  IN IF i > n THEN acc
     ELSE LET P0 == vectors[i - 1]
              P1 == vectors[i]
              P2 == IF i + 1 <= n THEN vectors[i + 1] ELSE extrapolate(P0, P1)
              P3 == IF i + 2 <= n THEN vectors[i + 2] ELSE extrapolate(P1, P2)
              time == timeToMove(P0, P1, P2, P3, n, speed)
          IN timedFrom(vectors, speed,
               Append(acc, [x |-> P1.x, y |-> P1.y,
                            timestamp |-> NumAdd(acc[i - 1].timestamp, time)]))

\* generateTimestamps dividing by the speed factor of the step count
generateTimestamps_stepSpeed(vectors, options, rnd, dateNow) ==
  LET speed == IF IsSet(options.moveSpeed) /\ Val(options.moveSpeed) > 0
               THEN [n |-> 25, d |-> Val(options.moveSpeed)]
               ELSE [n |-> rnd[6], d |-> RandDen]
  IN IF Len(vectors) = 0 THEN << >>
     ELSE timedFrom(vectors, speed,
            << [x |-> vectors[1].x, y |-> vectors[1].y, timestamp |-> Fin(dateNow)] >>)

generateTimestamps(vectors, options, rnd, dateNow) ==
  LET speed == IF IsSet(options.moveSpeed)
               THEN [n |-> Val(options.moveSpeed), d |-> 1]
               ELSE [n |-> rnd[7] + RandDen, d |-> 2 * RandDen]
  IN IF Len(vectors) = 0 THEN << >>
     ELSE timedFrom(vectors, speed,
            << [x |-> vectors[1].x, y |-> vectors[1].y, timestamp |-> Fin(dateNow)] >>)

\* clampPositive taking the absolute value instead of the maximum with 0
clampPositive_abs(vectors, options, rnd, dateNow) ==
  LET clampedVectors == [j \in 1..Len(vectors) |->
                           Point(Abs(vectors[j].x), Abs(vectors[j].y))]
  IN IF options.useTimestamps = Some(TRUE)
     THEN generateTimestamps(clampedVectors, options, rnd, dateNow)
     ELSE clampedVectors

\* clampPositive that returns the unclamped vectors when no timestamps are asked
clampPositive_untimedRaw(vectors, options, rnd, dateNow) ==
  LET clampedVectors == [j \in 1..Len(vectors) |->
                           Point(Max(0, vectors[j].x), Max(0, vectors[j].y))]
  IN IF options.useTimestamps = Some(TRUE)
     THEN generateTimestamps(clampedVectors, options, rnd, dateNow)
     ELSE vectors

clampPositive(vectors, options, rnd, dateNow) ==
  LET clampedVectors == [j \in 1..Len(vectors) |->
                           Point(Max(0, vectors[j].x), Max(0, vectors[j].y))]
  IN IF options.useTimestamps = Some(TRUE)
     THEN generateTimestamps(clampedVectors, options, rnd, dateNow)
     ELSE clampedVectors

\* computeDuration that forgets to subtract the first timestamp
computeDuration_last(vectors) ==
  IF Len(vectors) = 0 THEN Unset
  ELSE IF "timestamp" \notin DOMAIN vectors[1] THEN Unset
  ELSE Some(vectors[Len(vectors)].timestamp)

\* null is the empty optional
computeDuration(vectors) ==
  IF Len(vectors) = 0 THEN Unset
  ELSE IF "timestamp" \notin DOMAIN vectors[1] THEN Unset
  ELSE Some(NumSub(vectors[Len(vectors)].timestamp, vectors[1].timestamp))

\* toVector with y taken from x
toVector_typo(point) == Point(point.x, point.x)

toVector(point) == Point(point.x, point.y)

\* buildMetrics counting the intervals between vectors instead of the vectors
buildMetrics_intervals(start, finish, width, vectors) ==
  [steps |-> Len(vectors) - 1,
   distance |-> magnitude(direction(start, finish)),
   width |-> width,
   duration |-> computeDuration(vectors)]

buildMetrics(start, finish, width, vectors) ==
  [steps |-> Len(vectors),
   distance |-> magnitude(direction(start, finish)),
   width |-> width,
   duration |-> computeDuration(vectors)]

\* the speed factor drawn whatever moveSpeed says
resolveSpeed_alwaysDrawn(options, rnd) == [n |-> rnd[6], d |-> RandDen]

resolveSpeed(options, rnd) ==
  IF IsSet(options.moveSpeed) /\ Val(options.moveSpeed) > 0
  THEN [n |-> 25, d |-> Val(options.moveSpeed)]
  ELSE [n |-> rnd[6], d |-> RandDen]

\* Math.ceil((Math.log2(fitts(length, width) + 1) + speed * MIN_STEPS) * 3),
\* length = lenNum / lenDen
stepCount(lenNum, lenDen, width, speed) ==
  LET l == Log2Fx(fitts(lenNum, lenDen, width) + LogOne, LogOne)
  IN CeilDiv(3 * (l * speed.d + speed.n * MIN_STEPS * LogOne), LogOne * speed.d)

targetWidth(end) ==
  IF "width" \in DOMAIN end /\ end.width # 0 THEN end.width ELSE DEFAULT_WIDTH

\* generate that returns no vectors when there is nowhere to go
BezierGenerate_skipWhenStill(context, rnd, dateNow) ==
  LET start == context.start
      options == context.options
      finish == toVector(context.end)
      width == targetWidth(context.end)
      curve == bezierCurve(start, finish, options.spreadOverride, rnd)
      steps == stepCount(curveLength(curve) * 4, 5, width, resolveSpeed(options, rnd))
      vectors == IF toVector(start) = finish THEN << >>
                 ELSE clampPositive(getLUT(curve, steps), options, rnd, dateNow)
  IN [algorithm |-> "bezier-default",
      vectors |-> vectors,
      metrics |-> buildMetrics(start, finish, width, vectors)]

BezierGenerate(context, rnd, dateNow) ==
  LET start == context.start
      options == context.options
      finish == toVector(context.end)
      width == targetWidth(context.end)
      curve == bezierCurve(start, finish, options.spreadOverride, rnd)
      steps == stepCount(curveLength(curve) * 4, 5, width, resolveSpeed(options, rnd))
      vectors == clampPositive(getLUT(curve, steps), options, rnd, dateNow)
  IN [algorithm |-> "bezier-default",
      vectors |-> vectors,
      metrics |-> buildMetrics(start, finish, width, vectors)]

----------------------------------------------------------------------------
(* The facade (MovementEngine)                                             *)

\* normalizeOptions that spreads the caller's object and only defaults the flag
normalizeOptions_passThrough(options) ==
  IF IsSet(options)
  THEN [f \in DOMAIN Val(options) |->
          IF f = "useTimestamps" /\ ~IsSet(Val(options)[f]) THEN Some(FALSE)
          ELSE Val(options)[f]]
  ELSE [useTimestamps |-> Some(FALSE)]

\* options is the caller's optional options object
normalizeOptions(options) ==
  [spreadOverride |-> IF IsSet(options) THEN Val(options).spreadOverride ELSE Unset,
   moveSpeed |-> IF IsSet(options) THEN Val(options).moveSpeed ELSE Unset,
   useTimestamps |-> IF IsSet(options) /\ IsSet(Val(options).useTimestamps)
                     THEN Val(options).useTimestamps ELSE Some(FALSE)]

EngineContext(start, end, options) ==
  [start |-> start, end |-> end, options |-> normalizeOptions(options)]

EngineGenerate(start, end, options, rnd, dateNow) ==
  BezierGenerate(EngineContext(start, end, options), rnd, dateNow)

----------------------------------------------------------------------------
(* The cursor-state controller (GhostCursor)                               *)

NoOptions ==
  [spreadOverride |-> Unset, moveSpeed |-> Unset, useTimestamps |-> Unset,
   moveDelay |-> Unset, randomizeMoveDelay |-> Unset]

\* per-call options over the configured defaults, field by field
mergeOptions(call, dflt) ==
  [f \in DOMAIN NoOptions |-> IF IsSet(call[f]) THEN call[f] ELSE dflt[f]]

\* the positional event of one vector: {x, y, timestamp?}
Event(v) == v

StartLocation == Point(0, 0)

DefaultSets ==
  { NoOptions,
    [NoOptions EXCEPT !.useTimestamps = Some(TRUE), !.moveDelay = Some(5)] }

CallOptionSets ==
  { NoOptions,
    [NoOptions EXCEPT !.moveSpeed = Some(625), !.spreadOverride = Some(4),
                      !.useTimestamps = Some(FALSE), !.moveDelay = Some(0)] }

Destinations == { Point(6, 0), Box(0, 3, 20, 2) }

MoveDraws == { <<4, 2, 4, 6, 2, 0, 4>> }

\* dispatches sent to the transport and not yet settled
inflight == Len(sent) - Len(replies)

\* the controller and its transport outside any moveTo, as constructed
CtrlIdle ==
  /\ defaults = NoOptions
  /\ location = StartLocation
  /\ cpc = "idle"
  /\ lastCtx = Unset
  /\ ctrace = << >>
  /\ idx = 0
  /\ sent = << >>
  /\ replies = << >>
  /\ connected = TRUE
  /\ outcome = "none"
  /\ started = FALSE
  /\ moves = 0
  /\ clock = 0

\* no engine with a plugged-in algorithm is in use
EngIdle ==
  /\ script = << >>
  /\ contexts = << >>
  /\ invocations = 0
  /\ ecalls = << >>
  /\ returns = << >>

GenIdle ==
  /\ gpc = "idle"
  /\ req = Unset
  /\ draws = << >>
  /\ now = 0
  /\ via = "none"
  /\ trace = Unset

Init ==
  /\ GenIdle
  /\ EngIdle
  /\ defaults \in DefaultSets
  /\ location = StartLocation
  /\ cpc = "idle"
  /\ lastCtx = Unset
  /\ ctrace = << >>
  /\ idx = 0
  /\ sent = << >>
  /\ replies = << >>
  /\ connected = TRUE
  /\ outcome = "none"
  /\ started = FALSE
  /\ moves = 0
  /\ clock = 0

\* getLocation(): a snapshot of the current position
getLocation == location

\* moveTo(destination, options) up to its first suspension point: the options
\* are merged, the trace is requested with the current position as start
MoveTo(destination, options, rnd, dateNow) ==
  /\ cpc = "idle"
  /\ moves < MaxMoves
  /\ clock' = dateNow
  /\ LET merged == mergeOptions(options, defaults)
         t == EngineGenerate(location, destination, Some(merged), rnd, dateNow)
     IN /\ lastCtx' = Some([context |-> EngineContext(location, destination, Some(merged)),
                             pacing |-> merged])
        /\ ctrace' = t.vectors
  /\ idx' = 1
  /\ sent' = << >>
  /\ replies' = << >>
  /\ cpc' = "send"
  /\ outcome' = "none"
  /\ started' = TRUE
  /\ moves' = moves + 1
  /\ UNCHANGED <<defaults, location, connected, gvars, evars>>

\* Dispatch that does not wait for the acknowledgment before the next vector
Dispatch_fireAndForget ==
  /\ cpc = "send"
  /\ connected
  /\ sent' = Append(sent, Event(ctrace[idx]))
  /\ IF idx = Len(ctrace)
     THEN cpc' = "await" /\ UNCHANGED idx
     ELSE cpc' = "send" /\ idx' = idx + 1
  /\ UNCHANGED <<defaults, location, lastCtx, ctrace, replies, connected, outcome,
                 started, moves, clock, gvars, evars>>

\* the next vector goes to the transport; a disconnected host ends the call
Dispatch ==
  /\ cpc = "send"
  /\ inflight = 0
  /\ IF connected
     THEN /\ sent' = Append(sent, Event(ctrace[idx]))
          /\ cpc' = "await"
          /\ UNCHANGED outcome
     ELSE /\ cpc' = "idle"
          /\ outcome' = "failed"
          /\ UNCHANGED sent
  /\ UNCHANGED <<defaults, location, lastCtx, ctrace, idx, replies, connected, started, moves,
                 clock, gvars, evars>>

\* Acknowledge that commits the requested destination, not the last vector
Acknowledge_commitDestination ==
  /\ cpc = "await"
  /\ connected
  /\ replies' = Append(replies, "ack")
  /\ IF idx = Len(ctrace)
     THEN /\ location' = toVector(Val(lastCtx).context.end)
          /\ cpc' = "idle"
          /\ outcome' = "ok"
          /\ UNCHANGED idx
     ELSE /\ location' = ctrace[idx]
          /\ idx' = idx + 1
          /\ cpc' = IF IsSet(Val(lastCtx).pacing.moveDelay)
                       /\ Val(Val(lastCtx).pacing.moveDelay) # 0
                    THEN "delay" ELSE "send"
          /\ UNCHANGED outcome
  /\ UNCHANGED <<defaults, lastCtx, ctrace, sent, connected, started, moves, clock, gvars, evars>>

\* Acknowledge that keeps the position back until the whole trace went out
Acknowledge_commitAtEnd ==
  /\ cpc = "await"
  /\ connected
  /\ replies' = Append(replies, "ack")
  /\ IF idx = Len(ctrace)
     THEN /\ location' = ctrace[idx]
          /\ cpc' = "idle"
          /\ outcome' = "ok"
          /\ UNCHANGED idx
     ELSE /\ idx' = idx + 1
          /\ cpc' = IF IsSet(Val(lastCtx).pacing.moveDelay)
                       /\ Val(Val(lastCtx).pacing.moveDelay) # 0
                    THEN "delay" ELSE "send"
          /\ UNCHANGED <<location, outcome>>
  /\ UNCHANGED <<defaults, lastCtx, ctrace, sent, connected, started, moves, clock, gvars, evars>>

\* the transport acknowledges the dispatch: the acknowledged vector becomes the
\* current position; after the last vector the call completes, otherwise the
\* loop goes on, pacing first when a delay is set
Acknowledge ==
  /\ cpc = "await"
  /\ connected
  /\ replies' = Append(replies, "ack")
  /\ location' = ctrace[idx]
  /\ IF idx = Len(ctrace)
     THEN /\ cpc' = "idle"
          /\ outcome' = "ok"
          /\ UNCHANGED idx
     ELSE /\ idx' = idx + 1
          /\ cpc' = IF IsSet(Val(lastCtx).pacing.moveDelay)
                       /\ Val(Val(lastCtx).pacing.moveDelay) # 0
                    THEN "delay" ELSE "send"
          /\ UNCHANGED outcome
  /\ UNCHANGED <<defaults, lastCtx, ctrace, sent, connected, started, moves, clock, gvars, evars>>

\* Reject that only notes the failure and goes on with the next vector
Reject_continue ==
  /\ cpc = "await"
  /\ replies' = Append(replies, "rejected")
  /\ IF idx = Len(ctrace)
     THEN /\ cpc' = "idle"
          /\ outcome' = "failed"
          /\ UNCHANGED idx
     ELSE /\ idx' = idx + 1
          /\ cpc' = "send"
          /\ UNCHANGED outcome
  /\ UNCHANGED <<defaults, location, lastCtx, ctrace, sent, connected, started, moves,
                 clock, gvars, evars>>

\* the transport rejects the dispatch: the call ends with the failure, the
\* position stays at the last acknowledged vector
Reject ==
  /\ cpc = "await"
  /\ replies' = Append(replies, "rejected")
  /\ cpc' = "idle"
  /\ outcome' = "failed"
  /\ UNCHANGED <<defaults, location, lastCtx, ctrace, idx, sent, connected, started, moves,
                 clock, gvars, evars>>

\* the pacing delay between two dispatches has elapsed: moveDelay
\* milliseconds later the loop goes on
DelayElapsed ==
  /\ cpc = "delay"
  /\ cpc' = "send"
  /\ clock' = clock + Val(Val(lastCtx).pacing.moveDelay)
  /\ UNCHANGED <<defaults, location, lastCtx, ctrace, idx, sent, replies, connected,
                 outcome, started, moves, gvars, evars>>

\* the host goes away
Disconnect ==
  /\ connected
  /\ connected' = FALSE
  /\ UNCHANGED <<defaults, location, cpc, lastCtx, ctrace, idx, sent, replies,
                 outcome, started, moves, clock, gvars, evars>>

Next ==
  \/ \E d \in Destinations, o \in CallOptionSets, r \in MoveDraws, t \in clock..(clock + MaxClock) :
       MoveTo(d, o, r, t)
  \/ Dispatch
  \/ Acknowledge
  \/ Reject
  \/ DelayElapsed
  \/ Disconnect

Spec == Init /\ [][Next]_vars

----------------------------------------------------------------------------
(* Inputs of the generation harness                                        *)

Starts == { Point(-2, -1), Point(0, 0), Point(1, 3) }

Ends == { Point(6, 0), Point(-3, 2), Point(1, 3), Point(-2, -1),
          Box(6, 0, 2, 1), Box(6, 0, 0, 1), Box(0, 0, 3, 2) }

OptionSets ==
  [spreadOverride : {Unset, Some(4)},
   moveSpeed : {Unset, Some(625), Some(0), Some(-1)},
   useTimestamps : {Unset, Some(TRUE), Some(FALSE)}]

\* side, then (along, spread) for each interior control point
AnchorDraws == { <<0, 0, 0, 0, 0>>, <<0, 4, 4, 2, 6>>, <<4, 2, 4, 6, 2>>, <<4, 4, 0, 4, 7>> }

\* the draw of the step-count speed, the draw of the timestamp speed
SpeedDraws == { <<0, 0>>, <<1, 4>>, <<1, 7>> }

DrawSeqs == { a \o b : a \in AnchorDraws, b \in SpeedDraws }

Clocks == { 1000 }

GenInit ==
  /\ gpc = "call"
  /\ \E s \in Starts, e \in Ends, o \in {Unset} \cup { Some(r) : r \in OptionSets } :
       req = [start |-> s, end |-> e, options |-> o]
  /\ draws \in DrawSeqs
  /\ now \in Clocks
  /\ via = "none"
  /\ trace = Unset
  /\ CtrlIdle
  /\ EngIdle

\* BezierMovementAlgorithm.generate called directly with a context
CallAlgorithm ==
  /\ gpc = "call"
  /\ IsSet(req.options)
  /\ trace' = Some(BezierGenerate(
                 [start |-> req.start, end |-> req.end, options |-> Val(req.options)],
                 draws, now))
  /\ via' = "algorithm"
  /\ gpc' = "returned"
  /\ UNCHANGED <<req, draws, now, cvars, evars>>

\* MovementEngine.generate(start, end, options)
CallEngine ==
  /\ gpc = "call"
  /\ trace' = Some(EngineGenerate(req.start, req.end, req.options, draws, now))
  /\ via' = "engine"
  /\ gpc' = "returned"
  /\ UNCHANGED <<req, draws, now, cvars, evars>>

GenNext == CallAlgorithm \/ CallEngine

SpecGen == GenInit /\ [][GenNext]_vars

----------------------------------------------------------------------------
(* The facade with a plugged-in algorithm (specification SpecEngine)       *)

TimedPoint(x, y, t) == [x |-> x, y |-> y, timestamp |-> Fin(t)]

\* the metrics a replaying algorithm reports for the vectors it returns
PluggedMetrics(context, vectors) ==
  [steps |-> Len(vectors),
   distance |-> magnitude(direction(context.start, toVector(context.end))),
   width |-> IF "width" \in DOMAIN context.end /\ context.end.width # 0
             THEN context.end.width ELSE 0,
   duration |-> IF Len(vectors) > 0
                   /\ "timestamp" \in DOMAIN vectors[1]
                   /\ "timestamp" \in DOMAIN vectors[Len(vectors)]
                THEN Some(NumSub(vectors[Len(vectors)].timestamp, vectors[1].timestamp))
                ELSE Unset]

\* generate(context) of a plugged-in MovementAlgorithm that replays prepared
\* vectors: the trace it returns for the next prepared segment
PluggedGenerate(context, vectors) ==
  [algorithm |-> "scripted-movement",
   vectors |-> vectors,
   metrics |-> PluggedMetrics(context, vectors)]

ATrace(t) == [kind |-> "trace", trace |-> t]
AnError == [kind |-> "error"]

\* prepared segments: conforming ones, an empty one, wrong first, wrong last
SegPlain == << Point(0, 0), Point(3, 1), Point(6, 0) >>
SegTimed == << TimedPoint(1, 3, 10), TimedPoint(6, 0, 20) >>
SegEmpty == << >>
SegWrongFirst == << Point(2, 2), Point(6, 0) >>
SegWrongLast == << Point(0, 0), Point(5, 5) >>

Scripts ==
  { << SegPlain, SegTimed, SegPlain >>,
    << SegEmpty, SegPlain >>,
    << SegWrongFirst >>,
    << SegWrongLast, SegPlain, SegTimed, SegPlain >> }

EngineStarts == { Point(0, 0), Point(1, 3) }
EngineEnds == { Point(6, 0), Box(6, 0, 2, 1) }

\* the options argument: left out, the three algorithm options, or the
\* controller's option object with its pacing fields
EngineOptions ==
  { Unset,
    Some([spreadOverride |-> Some(4), moveSpeed |-> Unset, useTimestamps |-> Some(TRUE)]),
    Some([spreadOverride |-> Unset, moveSpeed |-> Some(90), useTimestamps |-> Unset,
          moveDelay |-> Some(5), randomizeMoveDelay |-> Some(TRUE)]) }

EngineInit ==
  /\ GenIdle
  /\ CtrlIdle
  /\ script \in Scripts
  /\ contexts = << >>
  /\ invocations = 0
  /\ ecalls = << >>
  /\ returns = << >>

\* MovementEngine.generate that answers a repeated request from its last result
EngineCall_cached(start, end, options) ==
  /\ Len(ecalls) < MaxCalls
  /\ ecalls' = Append(ecalls, [start |-> start, end |-> end, options |-> options])
  /\ LET context == EngineContext(start, end, options)
     IN IF Len(ecalls) > 0 /\ ecalls[Len(ecalls)] = [start |-> start, end |-> end, options |-> options]
        THEN /\ returns' = Append(returns, returns[Len(returns)])
             /\ UNCHANGED <<script, contexts, invocations>>
        ELSE /\ invocations' = invocations + 1
             /\ IF script = << >>
                THEN /\ returns' = Append(returns, AnError)
                     /\ UNCHANGED <<script, contexts>>
                ELSE /\ script' = Tail(script)
                     /\ contexts' = Append(contexts, context)
                     /\ returns' = Append(returns,
                                          ATrace(PluggedGenerate(context, Head(script))))
  /\ UNCHANGED <<gvars, cvars>>

\* MovementEngine.generate(start, end, options) with the plugged-in algorithm:
\* the context is built, the algorithm runs once, its trace (or the error it
\* throws when it has nothing prepared) goes to the caller
EngineCall(start, end, options) ==
  /\ Len(ecalls) < MaxCalls
  /\ ecalls' = Append(ecalls, [start |-> start, end |-> end, options |-> options])
  /\ invocations' = invocations + 1
  /\ LET context == EngineContext(start, end, options)
     IN IF script = << >>
        THEN /\ returns' = Append(returns, AnError)
             /\ UNCHANGED <<script, contexts>>
        ELSE /\ script' = Tail(script)
             /\ contexts' = Append(contexts, context)
             /\ returns' = Append(returns, ATrace(PluggedGenerate(context, Head(script))))
  /\ UNCHANGED <<gvars, cvars>>

EngineNext ==
  \E s \in EngineStarts, e \in EngineEnds, o \in EngineOptions : EngineCall(s, e, o)

SpecEngine == EngineInit /\ [][EngineNext]_vars

----------------------------------------------------------------------------
(* Properties of the generated trace (specification SpecGen)               *)

Returned == gpc = "returned"
Vectors == Val(trace).vectors
Metrics == Val(trace).metrics
First == Vectors[1]
Last == Vectors[Len(Vectors)]

\* the options the algorithm worked with
EffectiveOptions ==
  IF via = "engine" THEN normalizeOptions(req.options) ELSE Val(req.options)

TimestampsRequested == EffectiveOptions.useTimestamps = Some(TRUE)

\* the curve of the request and its samples before clamping
RequestCurve(end) ==
  bezierCurve(req.start, toVector(end), EffectiveOptions.spreadOverride, draws)
RawLUT == getLUT(RequestCurve(req.end), Len(Vectors) - 1)

\* the trace, without timestamps, for the same start, moveSpeed, spread and
\* draws and another destination
TraceFor(end) ==
  BezierGenerate([start |-> req.start, end |-> end,
                  options |-> [EffectiveOptions EXCEPT !.useTimestamps = Some(FALSE)]],
                 draws, now)
CountFor(end) == Len(TraceFor(end).vectors)

\* C1 as stated: the first vector of every returned trace has the x and y of
\* the request's start, negative starts included.
C1_FirstIsStart ==
  Returned => (First.x = req.start.x /\ First.y = req.start.y)

\* C1 amended: the first vector of every returned trace is the request's start
\* with each coordinate clamped to at least 0.
C1_FirstIsClampedStart ==
  Returned => (First.x = Max(0, req.start.x) /\ First.y = Max(0, req.start.y))

C1_Witness ==
  /\ Returned
  /\ req.start.x < 0 /\ req.start.y < 0
  /\ Len(Vectors) >= 2
  /\ First.x = 0 /\ First.y = 0

\* C2: the last vector of every returned trace is the destination's x and y,
\* each clamped to at least 0, for a point and for a target region.
C2_LastIsClampedEnd ==
  Returned => (Last.x = Max(0, req.end.x) /\ Last.y = Max(0, req.end.y))

C2_Witness ==
  /\ Returned
  /\ req.end.x < 0
  /\ Len(Vectors) >= 2
  /\ Last.x = 0 /\ Last.y = req.end.y /\ Last.y > 0

\* C3: every vector of every returned trace has x >= 0 and y >= 0, with and
\* without timestamps.
C3_NonNegative ==
  Returned => \A j \in 1..Len(Vectors) : Vectors[j].x >= 0 /\ Vectors[j].y >= 0

\* an interior sample of the curve is negative although both ends are not
C3_Witness ==
  /\ Returned
  /\ TimestampsRequested
  /\ req.start.x >= 0 /\ req.start.y >= 0 /\ req.end.x >= 0 /\ req.end.y >= 0
  /\ \E j \in 2..(Len(Vectors) - 1) : RawLUT[j].y < 0 /\ Vectors[j].y = 0

\* C4: when timestamps are requested, for every moveSpeed, every vector has a
\* timestamp and no timestamp is smaller than the one before it.
C4_MonotonicTimestamps ==
  (Returned /\ TimestampsRequested) =>
    \A j \in 1..Len(Vectors) :
      /\ "timestamp" \in DOMAIN Vectors[j]
      /\ j > 1 => NumGeq(Vectors[j].timestamp, Vectors[j - 1].timestamp)

\* C5: with timestamps requested metrics.duration is the last timestamp minus
\* the first; otherwise it is null and no vector has a timestamp.
C5_Duration ==
  Returned =>
    IF TimestampsRequested
    THEN Metrics.duration = Some(NumSub(Last.timestamp, First.timestamp))
    ELSE /\ Metrics.duration = Unset
         /\ \A j \in 1..Len(Vectors) : "timestamp" \notin DOMAIN Vectors[j]

C5_Witness ==
  /\ Returned
  /\ TimestampsRequested
  /\ First.timestamp = Fin(now)
  /\ \E d \in 1..100 : /\ Metrics.duration = Some(Fin(d))
                       /\ Last.timestamp = Fin(now + d)

\* C6: metrics.steps is the number of vectors, and the trace is not empty.
C6_StepsIsLength ==
  Returned => (Metrics.steps = Len(Vectors) /\ Len(Vectors) >= 1)

C6_Witness ==
  /\ Returned
  /\ Len(Vectors) >= 10
  /\ Metrics.steps = Len(Vectors)

\* widths a target is compared with
AltWidths == { 1, 3, 99 }

SameSpot(w) == Box(req.end.x, req.end.y, w, 1)

DistSq(end) ==
  (end.x - req.start.x) * (end.x - req.start.x)
  + (end.y - req.start.y) * (end.y - req.start.y)

----------------------------------------------------------------------------
(* Properties of the controller (specification Spec)                       *)

\* sent is what the transport received of this trace: one event per vector,
\* in array order, none twice
SentInOrder ==
  /\ Len(sent) <= Len(ctrace)
  /\ Len(sent) <= idx
  /\ \A j \in 1..Len(sent) : sent[j] = Event(ctrace[j])

\* C8: during one moveTo the vectors go to the transport in array order, one
\* event per vector, the event of vector i + 1 only after the acknowledgment of
\* vector i: at most one dispatch is in flight.
C8_SequentialDispatch ==
  /\ SentInOrder
  /\ inflight \in {0, 1}
  /\ cpc = "await" => (inflight = 1 /\ Len(sent) = idx)
  /\ cpc \in {"send", "delay"} =>
       (/\ inflight = 0
        /\ Len(sent) = idx - 1
        /\ \A j \in 1..Len(replies) : replies[j] = "ack")
  /\ outcome = "ok" => (Len(sent) = Len(ctrace) /\ Len(replies) = Len(ctrace))

C8_Witness ==
  /\ cpc = "await"
  /\ idx = 3
  /\ Len(ctrace) > 3
  /\ Len(sent) = 3
  /\ replies = <<"ack", "ack">>

\* C9: before any move getLocation() is the starting point given at
\* construction; after a fully dispatched moveTo it is the last dispatched
\* vector, timestamp included; every moveTo hands the algorithm getLocation()
\* as the start of its request.
C9_Continuity ==
  /\ [](~started => getLocation = StartLocation)
  /\ [](outcome = "ok" =>
          /\ Len(sent) = Len(ctrace)
          /\ Len(sent) >= 1
          /\ getLocation = sent[Len(sent)])
  /\ [][(cpc = "idle" /\ cpc' # "idle") =>
          Val(lastCtx').context.start = getLocation]_vars

\* a second move starts from the timed vector the first one committed
C9_Witness ==
  /\ cpc = "send"
  /\ idx = 1
  /\ "timestamp" \in DOMAIN location
  /\ location.x = 6
  /\ Val(lastCtx).context.start = location

\* C10: once the transport rejected the dispatch of vector k, or the host is
\* disconnected, nothing more of this trace is dispatched, no vector is
\* dispatched twice, and the moveTo ends as failed.
C10_AbortOnFailure ==
  /\ [](/\ SentInOrder
        /\ \A k \in 1..Len(replies) :
             replies[k] = "rejected" =>
               (k = Len(sent) /\ cpc = "idle" /\ outcome = "failed")
        /\ (~connected /\ cpc = "idle" /\ started /\ Len(replies) < Len(ctrace))
             => outcome = "failed")
  /\ [][~connected => Len(sent') <= Len(sent)]_vars

C10_Witness ==
  /\ outcome = "failed"
  /\ cpc = "idle"
  /\ replies = <<"ack", "rejected">>
  /\ Len(sent) = 2
  /\ Len(ctrace) > 2

\* the position the controller held when the current moveTo call started
BeforeMove == Val(lastCtx).context.start

\* C11: after a moveTo that failed at vector k, vectors 0..k-1 having been
\* dispatched and acknowledged (k >= 1), getLocation() is vector k-1, the last
\* acknowledged one.
C11_LeftAtLastDispatched ==
  (outcome = "failed" /\ idx >= 2) =>
    /\ Len(replies) >= idx - 1
    /\ \A j \in 1..(idx - 1) : replies[j] = "ack"
    /\ getLocation = ctrace[idx - 1]
    /\ getLocation = sent[idx - 1]

C11_Witness ==
  /\ outcome = "failed"
  /\ idx = 3
  /\ replies = <<"ack", "ack", "rejected">>
  /\ getLocation = ctrace[2]
  /\ getLocation # BeforeMove
  /\ getLocation # ctrace[1]

\* C12: the current position changes only when a move has been fully
\* dispatched: while a moveTo is in flight, and after one that failed before
\* its last vector, getLocation() is the position held before the call.
C12_OnlyOnFullSuccess ==
  (started /\ outcome # "ok") => getLocation = BeforeMove

----------------------------------------------------------------------------
(* Properties of the facade (specification SpecEngine)                     *)

\* what the algorithm contract asks of a trace for a call
Conforms(call, t) ==
  /\ Len(t.vectors) > 0
  /\ toVector(t.vectors[1]) = toVector(call.start)
  /\ toVector(t.vectors[Len(t.vectors)]) = toVector(call.end)

\* C13: MovementEngine.generate never returns to its caller a trace with zero
\* vectors, or one whose first vector differs from the start or whose last
\* vector differs from the destination: such a trace ends in an error.
C13_RejectsViolations ==
  \A i \in 1..Len(returns) :
    returns[i].kind = "trace" => Conforms(ecalls[i], returns[i].trace)

\* C15: the options the algorithm receives have exactly the fields
\* spreadOverride, moveSpeed and useTimestamps; useTimestamps is a boolean,
\* false when the caller left it unset or gave no options; the two numeric
\* options are the caller's, unset staying unset; pacing options do not arrive.
C15_NormalizedOptions ==
  \A i \in 1..Len(contexts) :
    LET given == ecalls[i].options
        got == contexts[i].options
    IN /\ DOMAIN got = {"spreadOverride", "moveSpeed", "useTimestamps"}
       /\ got.useTimestamps \in {Some(TRUE), Some(FALSE)}
       /\ IF IsSet(given)
          THEN /\ got.spreadOverride = Val(given).spreadOverride
               /\ got.moveSpeed = Val(given).moveSpeed
               /\ IsSet(Val(given).useTimestamps) =>
                    got.useTimestamps = Val(given).useTimestamps
               /\ ~IsSet(Val(given).useTimestamps) => got.useTimestamps = Some(FALSE)
          ELSE /\ got.spreadOverride = Unset
               /\ got.moveSpeed = Unset
               /\ got.useTimestamps = Some(FALSE)

C15_Witness ==
  /\ Len(contexts) = 3
  /\ ~IsSet(ecalls[1].options)
  /\ IsSet(ecalls[2].options)
  /\ "moveDelay" \in DOMAIN Val(ecalls[2].options)
  /\ contexts[2].options.moveSpeed = Some(90)
  /\ contexts[3].options.useTimestamps = Some(TRUE)

\* C16: n calls of MovementEngine.generate cause exactly n runs of the
\* algorithm's generate, in call order, each with the call's start and end
\* unchanged, and each call returns the trace of its own run unchanged (or the
\* error that run threw): nothing is reused and nothing is retried.
C16_OneInvocationPerCall ==
  /\ invocations = Len(ecalls)
  /\ Len(returns) = Len(ecalls)
  /\ Len(contexts) <= Len(ecalls)
  /\ \A i \in 1..Len(contexts) :
       /\ contexts[i].start = ecalls[i].start
       /\ contexts[i].end = ecalls[i].end
       /\ returns[i].kind = "trace"
       /\ returns[i].trace.metrics = PluggedMetrics(contexts[i], returns[i].trace.vectors)
  /\ \A i \in (Len(contexts) + 1)..Len(returns) : returns[i] = AnError
  /\ [i \in 1..Len(contexts) |-> returns[i].trace.vectors] \o script \in Scripts

C16_Witness ==
  /\ Len(ecalls) = 3
  /\ ecalls[1] = ecalls[2]
  /\ returns[1].kind = "trace"
  /\ returns[2].kind = "trace"
  /\ returns[1] # returns[2]
  /\ returns[3] = AnError
  /\ invocations = 3

----------------------------------------------------------------------------
(* Further properties of the generated trace (specification SpecGen)       *)

\* the request asks for no movement: the destination's coordinates are the start
Degenerate == toVector(req.end) = toVector(req.start)

\* C14 as stated: for a request whose start equals its destination, for every
\* moveSpeed and every draw, the trace is non-empty, its first and last vectors
\* equal that point, metrics.distance is 0 and metrics.steps is the number of
\* vectors.
C14_DegenerateAtPoint ==
  (Returned /\ Degenerate) =>
    /\ Len(Vectors) >= 1
    /\ toVector(First) = toVector(req.start)
    /\ toVector(Last) = toVector(req.start)
    /\ Metrics.distance = 0
    /\ Metrics.steps = Len(Vectors)

\* C14 amended: as above, with the first and last vectors equal to that point
\* after each coordinate is clamped to at least 0.
C14_DegenerateClamped ==
  (Returned /\ Degenerate) =>
    /\ Len(Vectors) >= 1
    /\ \A j \in {1, Len(Vectors)} :
         /\ Vectors[j].x = Max(0, req.start.x)
         /\ Vectors[j].y = Max(0, req.start.y)
    /\ Metrics.distance = 0
    /\ Metrics.steps = Len(Vectors)

\* a still request at a point with a negative coordinate, sampled more than once
C14_Witness ==
  /\ Returned
  /\ Degenerate
  /\ req.start.x < 0
  /\ Len(Vectors) >= 2
  /\ First = Point(0, 0)
  /\ Metrics.distance = 0

\* the step count the curve was sampled with: getLUT(steps) has steps + 1 points
StepsUsed == Len(Vectors) - 1

\* C17: the step count used to sample the curve is never below the minimum
\* resolution MIN_STEPS, also for a large positive moveSpeed and a short way.
C17_MinimumSteps ==
  Returned => StepsUsed >= MIN_STEPS

\* the moveSpeed option the algorithm received
GivenSpeed == EffectiveOptions.moveSpeed
PositiveSpeedGiven == IsSet(GivenSpeed) /\ Val(GivenSpeed) > 0

\* the draw generate takes for the speed factor, a value of [0, 1)
StepDraw == [n |-> draws[6], d |-> RandDen]

\* the step count of the request's curve and width for a speed factor n / d
StepsWith(speed) ==
  stepCount(curveLength(RequestCurve(req.end)) * 4, 5, targetWidth(req.end), speed)

\* the speed factor the claim names for this request
ClaimedStepSpeed ==
  IF PositiveSpeedGiven THEN [n |-> 25, d |-> Val(GivenSpeed)] ELSE StepDraw

\* C18 as stated: the step count is computed with the speed factor
\* 25 / moveSpeed exactly when moveSpeed is given and positive, otherwise with
\* one draw of [0, 1); the factor is never zero, negative or infinite.
C18_SpeedFactorNeverZero ==
  Returned =>
    /\ StepsUsed = StepsWith(ClaimedStepSpeed)
    /\ 0 <= StepDraw.n /\ StepDraw.n < StepDraw.d
    /\ ClaimedStepSpeed.d > 0
    /\ ClaimedStepSpeed.n > 0

\* C18 amended: the same, the factor being never negative and never infinite;
\* it is zero when the draw is 0.
C18_SpeedFactor ==
  Returned =>
    /\ StepsUsed = StepsWith(ClaimedStepSpeed)
    /\ 0 <= StepDraw.n /\ StepDraw.n < StepDraw.d
    /\ ClaimedStepSpeed.d > 0
    /\ ClaimedStepSpeed.n >= 0

\* a zero moveSpeed falls back to the draw, here a non-zero one
C18_Witness ==
  /\ Returned
  /\ ~Degenerate
  /\ GivenSpeed = Some(0)
  /\ StepDraw.n > 0
  /\ StepsUsed > StepsWith([n |-> 0, d |-> 1])

\* the returned vectors without their timestamps
Untimed == [j \in 1..Len(Vectors) |-> toVector(Vectors[j])]

\* the timestamps these vectors get when every elapsed time is the rounded
\* quotient of the integrated path length and the speed n / d
TimedWith(speed) ==
  timedFrom(Untimed, speed,
            << [x |-> First.x, y |-> First.y, timestamp |-> Fin(now)] >>)

\* what generateTimestamps divides by: moveSpeed itself when it is given,
\* otherwise a draw of its own moved into [0.5, 1)
TimingSpeed ==
  IF IsSet(GivenSpeed) THEN [n |-> Val(GivenSpeed), d |-> 1]
  ELSE [n |-> draws[7] + RandDen, d |-> 2 * RandDen]

\* C19 as stated: when timestamps are requested, the elapsed time between
\* consecutive vectors is the integrated path length divided by the speed
\* factor of the step count (25 / moveSpeed, or the draw of [0, 1)), rounded.
C19_SameSpeedFactor ==
  (Returned /\ TimestampsRequested) => Vectors = TimedWith(ClaimedStepSpeed)

\* C19 amended: the divisor is moveSpeed itself when it is given (whatever its
\* sign, and zero too), otherwise a separate draw moved into [0.5, 1).
C19_TimingSpeed ==
  (Returned /\ TimestampsRequested) => Vectors = TimedWith(TimingSpeed)

\* timestamps that advance, and that the step-count factor would not have given
C19_Witness ==
  /\ Returned
  /\ TimestampsRequested
  /\ ~IsSet(GivenSpeed)
  /\ Len(Vectors) >= 3
  /\ Last.timestamp.k = "fin"
  /\ Last.timestamp.v > First.timestamp.v
  /\ ClaimedStepSpeed.n > 0
  /\ Vectors # TimedWith(ClaimedStepSpeed)

----------------------------------------------------------------------------
(* Further properties of the controller (specification Spec)               *)

Timed(v) == "timestamp" \in DOMAIN v

\* C20: over a chain of successful moveTo calls with timestamps requested the
\* timestamps of the dispatched events never decrease: within one call, and
\* from the last event of a fully dispatched call to the first vector of the
\* trace generated by the next call.
C20_ChainTimestamps ==
  /\ [](\A j \in 2..Len(sent) :
          (Timed(sent[j - 1]) /\ Timed(sent[j])) =>
            NumGeq(sent[j].timestamp, sent[j - 1].timestamp))
  /\ [][(/\ cpc = "idle" /\ outcome = "ok"
         /\ cpc' = "send"
         /\ Timed(getLocation)
         /\ Timed(ctrace'[1]))
        => NumGeq(ctrace'[1].timestamp, getLocation.timestamp)]_vars

============================================================================
